---- MODULE Spec2Model ----
(***************************************************************************)
(* mastodon-to-sqlite: the paginated API client (client.py) and the        *)
(* ingestion service (service.py) as a state machine.                      *)
(*                                                                         *)
(* The store is the SQLite database behind sqlite_utils.Database: its      *)
(* tables, indexes, the column set of accounts and the rows of accounts    *)
(* and following.  Every step of save_accounts / build_database that       *)
(* sqlite_utils commits on its own is one action, so that the states the   *)
(* process can be stopped in are the states of the model.                  *)
(***************************************************************************)
EXTENDS Integers, Sequences, FiniteSets, TLC

\* ------------------------------------------------------------------ bounds
MaxClock == 2      \* distinct values utcnow() takes in a behaviour
MaxCrashes == 1    \* process crashes in a behaviour
MaxLog == 4        \* requests recorded in the request log
MaxRuns == 2       \* ingestion runs (first run and re-runs)
MaxRequests == 3   \* requests a caller of the client alone lets a generator send

\* ------------------------------------------------------------------ values
None == "None"     \* Python's None
NULL == "NULL"     \* SQL NULL

\* Python truthiness of an optional str argument: None and "" are falsy.
Truthy(x) == x # None /\ x # ""

\* x or y, as Python evaluates it.
PyOr(x, y) == IF Truthy(x) THEN x ELSE y

\* The keys transformer_account keeps.
AllowList == {"id", "username", "url", "display_url", "note"}

\* The columns build_database gives the accounts table.
AccountsColumns == {"id", "username", "url", "display_name", "note"}

\* SQLite's INTEGER affinity on the text values the model stores in
\* following.followed_id / follower_id: text that is a well-formed integer
\* literal is stored as that integer.
IntOfText == [t \in {"1", "10", "11"} |->
                 CASE t = "1" -> 1 [] t = "10" -> 10 [] t = "11" -> 11]

IntAffinity(t) == IntOfText[t]

\* ------------------------------------------------------------------ inputs
\* Raw account records as the API returns them (a dict: a function from the
\* keys it carries to their values).
Acct10a == [id |-> "10", username |-> "a", display_name |-> "A", avatar |-> "x"]
Acct10b == [id |-> "10", username |-> "b", display_name |-> "B", note |-> "n"]
Acct11c == [id |-> "11", username |-> "c", url |-> "u", display_url |-> "d"]
Acct11d == [id |-> "11", username |-> "d"]

\* The pages (lists of account records) the model passes to save_accounts.
Pages == { <<>>, <<Acct10a>>, <<Acct10b>>, <<Acct11d>>,
           <<Acct10a, Acct11c>>, <<Acct11c, Acct10b>>, <<Acct10a, Acct10b>> }

\* The id of the authenticated account.
OwnerId == "1"

OptionalIds == {None, OwnerId}

\* ------------------------------------------------------------------ state
VARIABLES
    db,           \* the store: tables, indexes, cols, accounts, following
    pc,           \* position of the process inside save_accounts / build_database
    caller,       \* who called build_database: "save_accounts" or "direct"
    accounts,     \* save_accounts' accounts argument (a list, mutated in place)
    followed_id,  \* save_accounts' followed_id argument
    follower_id,  \* save_accounts' follower_id argument
    first_seen,   \* save_accounts' local first_seen (0: not set)
    raised,       \* the exception the last call ended with, or None
    now,          \* the value the next utcnow() returns
    crashes,      \* crashes so far
    stoppedAt,    \* history: the position the process was last stopped at
    db0,          \* history: the store when the current call was made
    accounts0,    \* history: the accounts argument as it was passed
    firstObserved,\* history: (followed, follower) -> first_seen of the first
                  \* save that inserted that pair
    lastSaved,    \* history: account id -> the record, as it was passed, of
                  \* the last save that wrote that id
    server,       \* the server's data: URL -> the response it gives there
    endpoint,     \* the endpoint of the run: "followers" or "following"
    genPc,        \* request_paginated's generator: "none", "start", "yielded", "done"
    path,         \* request_paginated's local path (NoPath is None)
    resp,         \* the response of the pair the generator last yielded
    sent,         \* history: the requests the generator sent, in order
    yielded,      \* history: the (request, response) pairs it yielded, in order
    runPc,        \* position of the ingestion run's loop
    runs,         \* runs started so far
    kwargs,       \* request_paginated's **kwargs: the extra params
    auth,         \* the last verify_auth / get_account_id call and its outcome
    fault,        \* history: the request whose sending failed, if one did
    consumed,     \* history: the pairs of this run the consumer is done with
    savedIds,     \* history: the account ids of the pages whose save returned
    savedEdges    \* history: the edge rows of the pages whose save returned

saveVars == <<db, pc, caller, accounts, followed_id, follower_id, first_seen,
              raised, now, crashes, stoppedAt, db0, accounts0, firstObserved,
              lastSaved>>

clientVars == <<server, endpoint, genPc, path, resp, sent, yielded, runPc, runs,
                kwargs, auth, fault, consumed>>

histVars == <<savedIds, savedEdges>>

vars == <<saveVars, clientVars, histVars>>

\* ------------------------------------------------------------------ store
EmptyDb == [tables |-> {}, indexes |-> {}, cols |-> {},
            accounts |-> {}, following |-> {}]

\* db["accounts"].create(columns=..., pk="id")
CreateAccounts(d) ==
    [d EXCEPT !.tables = @ \cup {"accounts"}, !.cols = AccountsColumns]

\* db["accounts"].enable_fts([...], create_triggers=True)
EnableFts(d) == [d EXCEPT !.tables = @ \cup {"accounts_fts"}]

\* db["following"].create(..., pk=("followed_id", "follower_id"), ...): the
\* composite primary key brings its automatic index.
CreateFollowing(d) ==
    [d EXCEPT !.tables = @ \cup {"following"},
              !.indexes = @ \cup {<<"followed_id", "follower_id">>}]

\* db["following"].create_index([col])
CreateIndex(d, col) == [d EXCEPT !.indexes = @ \cup {<<col>>}]

\* following_indexes = {tuple(i.columns) for i in db["following"].indexes}
FollowingIndexes(d) == d.indexes

\* What sqlite checks when a table or an index is created.
TableExists(d, name) == name \in d.tables
IndexExists(d, col) == <<col>> \in d.indexes

\* The guards of build_database.
NeedsAccounts(d) == "accounts" \notin d.tables
NeedsFollowing(d) == "following" \notin d.tables
\* Mutant of NeedsIndex: the index is created without looking.
NeedsIndexAlways(d, col) == TRUE

NeedsIndex(d, col) == <<col>> \notin FollowingIndexes(d)

\* build_database(db), start to end.
BuildDatabase(d) ==
    LET d1 == IF NeedsAccounts(d) THEN EnableFts(CreateAccounts(d)) ELSE d
        d2 == IF NeedsFollowing(d1) THEN CreateFollowing(d1) ELSE d1
        d3 == IF NeedsIndex(d2, "followed_id")
              THEN CreateIndex(d2, "followed_id") ELSE d2
    IN  IF NeedsIndex(d2, "follower_id")
        THEN CreateIndex(d3, "follower_id") ELSE d3

\* ------------------------------------------------------------------ transform
\* to_remove = [k for k in account.keys() if k not in (...)]
ToRemove(account) == {k \in DOMAIN account : k \notin AllowList}

\* transformer_account(account): the dict after the deletions.
TransformerAccount(account) ==
    [k \in DOMAIN account \ ToRemove(account) |-> account[k]]

\* for account in accounts: transformer_account(account)
TransformAll(accts) == [i \in 1..Len(accts) |-> TransformerAccount(accts[i])]

\* ------------------------------------------------------------------ inserts
\* The keys of the records of one insert_all chunk.
ChunkColumns(accts) == UNION {DOMAIN accts[i] : i \in 1..Len(accts)}

\* alter=True: the columns insert_all adds to the table before inserting.
MissingColumns(d, accts) == ChunkColumns(accts) \ d.cols

AddMissingColumns(d, accts) ==
    LET add == MissingColumns(d, accts)
    IN  [d EXCEPT !.cols = @ \cup add,
                  !.accounts = {[c \in d.cols \cup add |->
                                    IF c \in d.cols THEN r[c] ELSE NULL] : r \in @}]

\* The row INSERT OR REPLACE writes for one record: the record's values in
\* the columns it carries, NULL in every other column of the table.
AccountRow(d, account) ==
    [c \in d.cols |-> IF c \in DOMAIN account THEN account[c] ELSE NULL]

\* INSERT OR REPLACE of one row: the row with the same primary key goes.
ReplaceRow(rows, row) == {r \in rows : r.id # row.id} \cup {row}

\* Mutant of AccountsConflict: replace=True is left out, a row whose
\* primary key exists makes the insert fail.
AccountsConflictAbort == "abort"

\* insert_all(accounts, pk="id", alter=True, replace=True): INSERT OR REPLACE.
AccountsConflict == "replace"

\* The insert is refused: under a plain INSERT, a record whose id is in the
\* table or twice in the chunk.
AccountsRefused(d, accts) ==
    /\ AccountsConflict = "abort"
    /\ \/ \E i \in 1..Len(accts) : \E r \in d.accounts : r.id = accts[i].id
       \/ \E i, k \in 1..Len(accts) : i # k /\ accts[i].id = accts[k].id

RECURSIVE ReplaceAll(_, _, _)
ReplaceAll(d, rows, accts) ==
    IF accts = <<>> THEN rows
    ELSE ReplaceAll(d, ReplaceRow(rows, AccountRow(d, Head(accts))), Tail(accts))

\* Mutant of InsertAccounts: truncate=True, the table is emptied before the
\* records are inserted.
InsertAccountsTruncate(d, accts) ==
    [d EXCEPT !.accounts = ReplaceAll(d, {}, accts)]

\* db["accounts"].insert_all(accounts, pk="id", alter=True, replace=True),
\* once the table has the columns.
InsertAccounts(d, accts) ==
    [d EXCEPT !.accounts = ReplaceAll(d, @, accts)]

\* Mutant of EdgeRecord: the two sides of the edge are mixed up.
EdgeRecordSwapped(account, fid, gid, ts) ==
    [followed_id |-> PyOr(gid, account.id),
     follower_id |-> PyOr(fid, account.id),
     first_seen  |-> ts]

\* The edge record save_accounts builds for one account.
EdgeRecord(account, fid, gid, ts) ==
    [followed_id |-> PyOr(fid, account.id),
     follower_id |-> PyOr(gid, account.id),
     first_seen  |-> ts]

\* The row as following stores it: both id columns are declared int.
EdgeRow(rec) ==
    [followed_id |-> IntAffinity(rec.followed_id),
     follower_id |-> IntAffinity(rec.follower_id),
     first_seen  |-> rec.first_seen]

SameEdge(r, s) == r.followed_id = s.followed_id /\ r.follower_id = s.follower_id

\* Mutant of IgnoreRow: INSERT OR REPLACE, the new row takes the place of
\* the row with the same primary key.
ReplaceEdgeRow(rows, row) == {r \in rows : ~SameEdge(r, row)} \cup {row}

\* INSERT OR IGNORE of one row: a row with the same primary key stays.
IgnoreRow(rows, row) ==
    IF \E r \in rows : SameEdge(r, row) THEN rows ELSE rows \cup {row}

RECURSIVE IgnoreAll(_, _, _, _, _)
IgnoreAll(rows, accts, fid, gid, ts) ==
    IF accts = <<>> THEN rows
    ELSE IgnoreAll(IgnoreRow(rows, EdgeRow(EdgeRecord(Head(accts), fid, gid, ts))),
                   Tail(accts), fid, gid, ts)

\* Mutant of InsertFollowing: truncate=True, the table is emptied before the
\* edges are inserted.
InsertFollowingTruncate(d, accts, fid, gid, ts) ==
    [d EXCEPT !.following = IgnoreAll({}, accts, fid, gid, ts)]

\* db["following"].insert_all((...), ignore=True)
InsertFollowing(d, accts, fid, gid, ts) ==
    [d EXCEPT !.following = IgnoreAll(@, accts, fid, gid, ts)]

\* save_accounts(db, accounts, followed_id, follower_id), start to end, at
\* time t: the store it leaves, or the store untouched when it raises.
SaveAccounts(d, accts, fid, gid, t) ==
    IF Truthy(fid) /\ Truthy(gid) THEN d
    ELSE LET built == BuildDatabase(d)
             recs == TransformAll(accts)
             widened == AddMissingColumns(built, recs)
             saved == InsertAccounts(widened, recs)
         IN  IF AccountsRefused(widened, recs) THEN widened
             ELSE IF Truthy(fid) \/ Truthy(gid)
                  THEN InsertFollowing(saved, recs, fid, gid, t)
                  ELSE saved

\* ------------------------------------------------------------------ client
\* Text is a sequence of tokens; a token is a piece of text the model never
\* looks inside.
Domain == "mastodon.example"
AccessToken == "token"

\* self.api_url = f"https://{domain}/api/v1"
ApiUrl == <<"https://", Domain, "/api", "/v1">>

\* full_url = f"{self.api_url}/{path}"
FullUrl(p) == ApiUrl \o <<"/">> \o p

\* MastodonAuth.__call__: the header every prepared request gets.
AuthHeader == <<"Bearer ", AccessToken>>

IsPrefix(pat, s) == Len(pat) <= Len(s) /\ SubSeq(s, 1, Len(pat)) = pat

\* The tokens that are one path segment with its leading slash, the token
\* that is the dot segment "../", and the tokens that open a query string.
PathSegments == {"/api", "/v1"}
DotSegment == "../"
QueryTokens == {"?", "?max_id=2", "?max_id=3", "?next="}

\* session.prepare_request(request), the URL: a dot segment that follows a
\* slash takes the path segment before that slash away (at the root of the
\* path it takes nothing). out is what is prepared so far.
RECURSIVE RemoveDotSegments(_, _)
RemoveDotSegments(out, rest) ==
    IF rest = <<>> THEN out
    ELSE IF Head(rest) = DotSegment /\ out # <<>> /\ out[Len(out)] = "/"
         THEN RemoveDotSegments(
                  IF Len(out) >= 2 /\ out[Len(out) - 1] \in PathSegments
                  THEN SubSeq(out, 1, Len(out) - 2) \o <<"/">>
                  ELSE out,
                  Tail(rest))
         ELSE RemoveDotSegments(Append(out, Head(rest)), Tail(rest))

HasQuery(url) == \E i \in 1..Len(url) : url[i] \in QueryTokens

\* session.prepare_request(request), the params of **kwargs: they are
\* appended to the URL's query string, or open one.
WithParams(url, params) ==
    IF params = <<>> THEN url
    ELSE IF HasQuery(url) THEN url \o <<"&">> \o params
         ELSE url \o <<"?">> \o params

\* The URL of the request prepared from full_url and **kwargs.
PrepareUrl(url, params) == WithParams(RemoveDotSegments(<<>>, url), params)

\* MastodonClient.request: the request it prepares and sends for a path.
PreparedRequest(method, p, params) ==
    [method |-> method, url |-> PrepareUrl(FullUrl(p), params),
     authorization |-> AuthHeader]

\* str.replace(old, ""): every occurrence of old, left to right, is dropped.
RECURSIVE RemoveAll(_, _)
RemoveAll(s, old) ==
    IF s = <<>> THEN <<>>
    ELSE IF IsPrefix(old, s)
         THEN RemoveAll(SubSeq(s, Len(old) + 1, Len(s)), old)
         ELSE <<Head(s)>> \o RemoveAll(Tail(s), old)

\* path = next_url.replace(f"{self.api_url}/", "")
StripBase(url) == RemoveAll(url, ApiUrl \o <<"/">>)

NoPath == <<>>
Some(p) == <<p>>

\* "Link" not in response.headers or "next" not in response.links
NoNextLink(r) == ~r.hasLink \/ r.links.next = <<>>

\* Mutant of NextPath: a page with an empty body ends the pagination too.
NextPathStopsOnEmpty(r) ==
    IF NoNextLink(r) \/ r.body = <<>> THEN NoPath
    ELSE Some(StripBase(r.links.next[1]))

\* Mutant of NextPath: a response with an error status ends the pagination.
NextPathStopsOnError(r) ==
    IF NoNextLink(r) \/ r.status >= 400 THEN NoPath
    ELSE Some(StripBase(r.links.next[1]))

\* Mutant of NextPath: path is not set to None when there is no next link,
\* so the loop asks for the same path again.
NextPathKeepsPath(r) ==
    IF NoNextLink(r) THEN path ELSE Some(StripBase(r.links.next[1]))

\* request_paginated, after a yield: the path of the next request, or None.
NextPath(r) ==
    IF NoNextLink(r) THEN NoPath ELSE Some(StripBase(r.links.next[1]))

\* accounts_followers / accounts_following: the path of the first request.
EndpointPath(e, account_id) == <<"accounts/", account_id, "/", e>>

Endpoints == {"followers", "following"}

\* The URLs of the pages of an endpoint: the first page and two later ones.
Cursors == {"?max_id=2", "?max_id=3"}

PageUrls(e) ==
    {FullUrl(EndpointPath(e, OwnerId))} \cup
    {FullUrl(EndpointPath(e, OwnerId) \o <<c>>) : c \in Cursors}

\* The targets a next link of the server can have.
LinkTargets(e) == PageUrls(e)

\* The bodies the server's pages can have.
Bodies == { <<Acct10a, Acct11c>>, <<Acct10b>>, <<>> }

\* A response: its status, whether it has a Link header, its links, whether
\* its body is JSON (parses) and, when it is, the value of the body.
Response(s, h, n, j, b) ==
    [status |-> s, hasLink |-> h, links |-> [next |-> n], parses |-> j, body |-> b]

\* The responses the server can give for a page of endpoint e: no Link
\* header, a Link header without a next relation, a Link header with one;
\* a body that is a page of accounts, or one that is not JSON.
Responses(e) ==
    {Response(200, h, <<>>, TRUE, b) : h \in BOOLEAN, b \in Bodies}
    \cup
    {Response(200, TRUE, <<u>>, TRUE, b) : u \in LinkTargets(e), b \in Bodies}
    \cup
    {Response(200, h, <<>>, FALSE, <<>>) : h \in BOOLEAN}
    \cup
    {Response(200, TRUE, <<u>>, FALSE, <<>>) : u \in LinkTargets(e)}

NoResponse == Response(0, FALSE, <<>>, TRUE, <<>>)

\* The domain of another server.
OtherDomain == "other.example"

\* The targets a next link can have when the server is free to send any:
\* a page, a URL of another origin, a URL with dot segments, a URL in
\* which the text of the base URL occurs a second time, the base itself.
AnyLinkTargets(e) ==
    { FullUrl(EndpointPath(e, OwnerId) \o <<"?max_id=2">>),
      <<"https://", OtherDomain, "/", "inbox">>,
      FullUrl(<<DotSegment, DotSegment, "oauth/token">>),
      FullUrl(EndpointPath(e, OwnerId) \o <<"?next=">> \o FullUrl(<<"x">>)),
      FullUrl(<<>>) }

\* The statuses the server can answer with.
Statuses == {200, 204, 304, 401, 503}

\* The status and body of the answers of a server that is free to send
\* any: a page, an empty page, and failures with an empty array as body.
AnyAnswers == { <<200, <<Acct10b>>  >>, <<200, <<>> >>, <<503, <<>> >> }

AnyResponses(e) ==
    {Response(200, h, <<>>, TRUE, <<Acct10b>>) : h \in BOOLEAN}
    \cup
    {Response(a[1], TRUE, <<u>>, TRUE, a[2]) : u \in AnyLinkTargets(e), a \in AnyAnswers}

\* The params a caller of request_paginated can pass in **kwargs.
ExtraParams == { <<>>, <<"limit=80">> }

\* The server's data is fixed: a URL it has answered is answered the same
\* way again; a URL it is asked for the first time gets any response.
Answers(url) ==
    IF url \in DOMAIN server THEN {server[url]} ELSE Responses(endpoint)

\* ------------------------------------------------------------------ frame
\* Mutant of AssertFails: the assertion is gone (as under python -O).
AssertStripped(fid, gid) == FALSE

\* assert not (followed_id and follower_id): the assertion fails.
AssertFails(fid, gid) == Truthy(fid) /\ Truthy(gid)

\* if followed_id or follower_id:
WantsEdges(fid, gid) == Truthy(fid) \/ Truthy(gid)

Min(a, b) == IF a < b THEN a ELSE b

\* The (followed, follower) pairs of the edge records of a page.
EdgePairs(accts, fid, gid) ==
    {<<PyOr(fid, accts[i].id), PyOr(gid, accts[i].id)>> : i \in 1..Len(accts)}

\* The last record of a page with the given id.
LastWith(accts, i) ==
    accts[CHOOSE k \in 1..Len(accts) :
              /\ accts[k].id = i
              /\ \A m \in (k + 1)..Len(accts) : accts[m].id # i]

EdgeKey(r) == <<r.followed_id, r.follower_id>>

\* The key of the stored row of a (followed, follower) pair of ids.
StoredKey(p) == <<IntOfText[p[1]], IntOfText[p[2]]>>

\* The keys of the edges of the page of the current call.
CallEdgeKeys ==
    {StoredKey(<<PyOr(followed_id, accounts0[i].id), PyOr(follower_id, accounts0[i].id)>>) :
        i \in 1..Len(accounts0)}

\* No verify_auth / get_account_id call was made.
NoAuth == [fn |-> None, request |-> <<>>, status |-> 0, returned |-> None,
           raised |-> None]

\* No call in progress: the frame holds nothing.
FrameCleared ==
    /\ pc' = "idle"
    /\ caller' = None
    /\ accounts' = <<>>
    /\ followed_id' = None
    /\ follower_id' = None
    /\ first_seen' = 0
    /\ raised' = None
    /\ db0' = EmptyDb
    /\ accounts0' = <<>>

Init ==
    /\ db = EmptyDb
    /\ pc = "idle"
    /\ caller = None
    /\ accounts = <<>>
    /\ followed_id = None
    /\ follower_id = None
    /\ first_seen = 0
    /\ raised = None
    /\ now = 1
    /\ crashes = 0
    /\ stoppedAt = None
    /\ db0 = EmptyDb
    /\ accounts0 = <<>>
    /\ firstObserved = <<>>
    /\ lastSaved = <<>>
    /\ server = <<>>
    /\ endpoint = "followers"
    /\ genPc = "none"
    /\ path = NoPath
    /\ resp = NoResponse
    /\ sent = <<>>
    /\ yielded = <<>>
    /\ runPc = "none"
    /\ runs = 0
    /\ kwargs = <<>>
    /\ auth = NoAuth
    /\ fault = <<>>
    /\ consumed = 0
    /\ savedIds = {}
    /\ savedEdges = {}

\* ------------------------------------------------------------------ save_accounts
\* The call, up to and including the assertion.
SaveAccountsEnter(accts, fid, gid) ==
    /\ pc = "idle"
    /\ caller' = "save_accounts"
    /\ accounts' = accts
    /\ followed_id' = fid
    /\ follower_id' = gid
    /\ db0' = db
    /\ accounts0' = accts
    /\ IF AssertFails(fid, gid)
       THEN raised' = "AssertionError" /\ pc' = "returned"
       ELSE raised' = None /\ pc' = "build_accounts"
    /\ UNCHANGED <<db, first_seen, now, crashes, stoppedAt, firstObserved, lastSaved,
                   histVars>>

SaveAccountsCall ==
    \E accts \in Pages, fid \in OptionalIds, gid \in OptionalIds :
        SaveAccountsEnter(accts, fid, gid) /\ UNCHANGED clientVars

\* build_database(db) called on its own.
BuildDatabaseCall ==
    /\ pc = "idle"
    /\ caller' = "direct"
    /\ pc' = "build_accounts"
    /\ db0' = db
    /\ raised' = None
    /\ UNCHANGED <<db, accounts, followed_id, follower_id, first_seen, now,
                   crashes, stoppedAt, accounts0, firstObserved, lastSaved,
                   clientVars, histVars>>

frame == <<caller, accounts, followed_id, follower_id, first_seen, now, crashes,
           stoppedAt, db0, accounts0, firstObserved, lastSaved, clientVars,
           histVars>>

\* A statement of build_database that sqlite refuses (the table or index it
\* creates exists already) ends the call with the error.
Raise(error) ==
    /\ raised' = error
    /\ pc' = "returned"
    /\ db' = db

\* if "accounts" not in table_names: db["accounts"].create(...)
StepCreateAccounts ==
    /\ pc = "build_accounts"
    /\ IF NeedsAccounts(db)
       THEN IF TableExists(db, "accounts")
            THEN Raise("OperationalError")
            ELSE db' = CreateAccounts(db) /\ pc' = "build_fts" /\ raised' = raised
       ELSE db' = db /\ pc' = "build_following" /\ raised' = raised
    /\ UNCHANGED frame

\* db["accounts"].enable_fts(...)
StepEnableFts ==
    /\ pc = "build_fts"
    /\ IF TableExists(db, "accounts_fts")
       THEN Raise("OperationalError")
       ELSE db' = EnableFts(db) /\ pc' = "build_following" /\ raised' = raised
    /\ UNCHANGED frame

\* if "following" not in table_names: db["following"].create(...)
StepCreateFollowing ==
    /\ pc = "build_following"
    /\ IF NeedsFollowing(db) /\ TableExists(db, "following")
       THEN Raise("OperationalError")
       ELSE /\ db' = IF NeedsFollowing(db) THEN CreateFollowing(db) ELSE db
            /\ pc' = "build_index_followed"
            /\ raised' = raised
    /\ UNCHANGED frame

\* if ("followed_id",) not in following_indexes: create_index(["followed_id"])
StepIndexFollowed ==
    /\ pc = "build_index_followed"
    /\ IF NeedsIndex(db, "followed_id") /\ IndexExists(db, "followed_id")
       THEN Raise("OperationalError")
       ELSE /\ db' = IF NeedsIndex(db, "followed_id")
                     THEN CreateIndex(db, "followed_id") ELSE db
            /\ pc' = "build_index_follower"
            /\ raised' = raised
    /\ UNCHANGED frame

\* if ("follower_id",) not in following_indexes: create_index(["follower_id"]);
\* build_database returns.
StepIndexFollower ==
    /\ pc = "build_index_follower"
    /\ IF NeedsIndex(db, "follower_id") /\ IndexExists(db, "follower_id")
       THEN Raise("OperationalError")
       ELSE /\ db' = IF NeedsIndex(db, "follower_id")
                     THEN CreateIndex(db, "follower_id") ELSE db
            /\ pc' = IF caller = "direct" THEN "returned" ELSE "transform"
            /\ raised' = raised
    /\ UNCHANGED frame

\* for account in accounts: transformer_account(account)
StepTransform ==
    /\ pc = "transform"
    /\ accounts' = TransformAll(accounts)
    /\ pc' = IF MissingColumns(db, accounts') # {} THEN "alter" ELSE "insert_accounts"
    /\ UNCHANGED <<db, caller, followed_id, follower_id, first_seen, raised, now,
                   crashes, stoppedAt, db0, accounts0, firstObserved, lastSaved,
                   clientVars, histVars>>

\* insert_all(..., alter=True): the missing columns are added first.
StepAlter ==
    /\ pc = "alter"
    /\ db' = AddMissingColumns(db, accounts)
    /\ pc' = "insert_accounts"
    /\ UNCHANGED <<frame, raised>>

\* db["accounts"].insert_all(accounts, pk="id", alter=True, replace=True)
StepInsertAccounts ==
    /\ pc = "insert_accounts"
    /\ IF AccountsRefused(db, accounts)
       THEN Raise("IntegrityError") /\ lastSaved' = lastSaved
       ELSE /\ db' = InsertAccounts(db, accounts)
            /\ lastSaved' = [i \in {accounts0[k].id : k \in 1..Len(accounts0)} |->
                                 LastWith(accounts0, i)] @@ lastSaved
            /\ pc' = IF WantsEdges(followed_id, follower_id)
                     THEN "insert_following" ELSE "returned"
            /\ raised' = raised
    /\ UNCHANGED <<caller, accounts, followed_id, follower_id, first_seen, now,
                   crashes, stoppedAt, db0, accounts0, firstObserved, clientVars,
                   histVars>>

\* first_seen = utcnow().isoformat(); db["following"].insert_all(..., ignore=True)
StepInsertFollowing ==
    /\ pc = "insert_following"
    /\ first_seen' = now
    /\ db' = InsertFollowing(db, accounts, followed_id, follower_id, first_seen')
    /\ firstObserved' = firstObserved @@
           [p \in EdgePairs(accounts, followed_id, follower_id) |-> first_seen']
    /\ now' = Min(now + 1, MaxClock)
    /\ pc' = "returned"
    /\ UNCHANGED <<caller, accounts, followed_id, follower_id, raised, crashes,
                   stoppedAt, db0, accounts0, lastSaved, clientVars, histVars>>

\* The call is over and the caller lets go of its arguments. In a run, a
\* save that raised ends the run; one that returned ends the loop body for
\* its page.
Return ==
    /\ pc = "returned"
    /\ FrameCleared
    /\ IF raised # None /\ runPc = "loop"
       THEN runPc' = "failed" /\ genPc' = "none"
       ELSE runPc' = runPc /\ genPc' = genPc
    /\ IF raised = None /\ runPc = "loop" /\ caller = "save_accounts"
       THEN /\ consumed' = Min(consumed + 1, MaxLog)
            /\ savedIds' = savedIds \cup {accounts0[i].id : i \in 1..Len(accounts0)}
            /\ savedEdges' = savedEdges \cup
                   {r \in db.following : EdgeKey(r) \in CallEdgeKeys}
       ELSE UNCHANGED <<consumed, savedIds, savedEdges>>
    /\ UNCHANGED <<db, now, crashes, stoppedAt, firstObserved, lastSaved, server,
                   endpoint, path, resp, sent, yielded, runs, kwargs, auth, fault>>

\* The process is stopped inside a call: what is committed stays.
Crash ==
    /\ runPc = "none"
    /\ pc \notin {"idle", "returned"}
    /\ crashes < MaxCrashes
    /\ crashes' = crashes + 1
    /\ stoppedAt' = pc
    /\ FrameCleared
    /\ UNCHANGED <<db, now, firstObserved, lastSaved, clientVars, histVars>>

Next ==
    \/ SaveAccountsCall
    \/ BuildDatabaseCall
    \/ StepCreateAccounts
    \/ StepEnableFts
    \/ StepCreateFollowing
    \/ StepIndexFollowed
    \/ StepIndexFollower
    \/ StepTransform
    \/ StepAlter
    \/ StepInsertAccounts
    \/ StepInsertFollowing
    \/ Return
    \/ Crash

Spec == Init /\ [][Next]_vars

\* ------------------------------------------------------------------ the run
\* A log keeps its first MaxLog entries.
Log(log, e) == IF Len(log) < MaxLog THEN Append(log, e) ELSE log

\* The ids the run passes to save_accounts: the owner is the followed
\* account of its followers and the follower of the accounts it follows.
RunFollowedId == IF endpoint = "followers" THEN OwnerId ELSE None
RunFollowerId == IF endpoint = "followers" THEN None ELSE OwnerId

InitRun ==
    /\ db = EmptyDb
    /\ pc = "idle"
    /\ caller = None
    /\ accounts = <<>>
    /\ followed_id = None
    /\ follower_id = None
    /\ first_seen = 0
    /\ raised = None
    /\ now = 1
    /\ crashes = 0
    /\ stoppedAt = None
    /\ db0 = EmptyDb
    /\ accounts0 = <<>>
    /\ firstObserved = <<>>
    /\ lastSaved = <<>>
    /\ server = <<>>
    /\ endpoint \in Endpoints
    /\ genPc = "none"
    /\ path = NoPath
    /\ resp = NoResponse
    /\ sent = <<>>
    /\ yielded = <<>>
    /\ runPc = "none"
    /\ runs = 0
    /\ kwargs = <<>>
    /\ auth = NoAuth
    /\ fault = <<>>
    /\ consumed = 0
    /\ savedIds = {}
    /\ savedEdges = {}

\* A run starts: get_followers(account_id, client) / get_followings(...)
\* creates the generator of request_paginated("GET", path).
RunStart ==
    /\ runPc \in {"none", "aborted", "failed", "done"}
    /\ pc = "idle"
    /\ runs < MaxRuns
    /\ runs' = runs + 1
    /\ genPc' = "start"
    /\ path' = Some(EndpointPath(endpoint, OwnerId))
    /\ kwargs' = <<>>
    /\ resp' = NoResponse
    /\ sent' = <<>>
    /\ yielded' = <<>>
    /\ fault' = <<>>
    /\ consumed' = 0
    /\ auth' = NoAuth
    /\ runPc' = "loop"
    /\ UNCHANGED <<server, endpoint, saveVars, histVars>>

\* Mutant of Suspended: the generator does not wait at its yield to be asked.
SuspendedNever == runPc \in {"loop", "got"} /\ pc = "idle"

\* The generator is suspended (before its first statement or at its yield)
\* and its consumer, done with what it was given, asks it for the next item.
Suspended == runPc = "loop" /\ pc = "idle"

\* Mutant of AfterFault: the error is caught and the request is made again.
AfterFaultRetry(p) == [genPc |-> "start", path |-> p, runPc |-> "loop"]

\* session.send raises: nothing catches it in request, request_paginated,
\* get_followers or get_followings, so the generators are finished and the
\* caller has the error.
AfterFault(p) == [genPc |-> "none", path |-> NoPath, runPc |-> "aborted"]

\* What the resume leaves unchanged of the save's variables.
saveFrame == <<db, pc, caller, accounts, followed_id, follower_id, first_seen,
               raised, now, db0, accounts0, firstObserved, lastSaved>>

\* The generator of request_paginated is resumed: it runs from where it is
\* suspended to its next yield, or to its end, or to the error of the
\* request it sends. rs: the responses of a URL the server was not asked for
\* before. json: the generator is consumed by get_followers /
\* get_followings, which goes on to response.json().
Resume(rs, json) ==
    /\ Suspended
    /\ genPc \in {"start", "yielded"}
    /\ LET p == IF genPc = "start" THEN path ELSE NextPath(resp)
       IN  IF p = NoPath
           THEN /\ genPc' = "done"
                /\ path' = NoPath
                /\ runPc' = "done"
                /\ UNCHANGED <<server, resp, sent, yielded, fault, crashes, stoppedAt>>
           ELSE LET request == PreparedRequest("GET", p[1], kwargs)
                IN  \/ /\ crashes < MaxCrashes
                       /\ crashes' = crashes + 1
                       /\ stoppedAt' = "request"
                       /\ fault' = <<request>>
                       /\ sent' = Log(sent, request)
                       /\ genPc' = AfterFault(p).genPc
                       /\ path' = AfterFault(p).path
                       /\ runPc' = AfterFault(p).runPc
                       /\ UNCHANGED <<server, resp, yielded>>
                    \/ \E r \in (IF request.url \in DOMAIN server
                                 THEN {server[request.url]} ELSE rs) :
                        /\ server' = IF request.url \in DOMAIN server THEN server
                                      ELSE server @@ (request.url :> r)
                        /\ sent' = Log(sent, request)
                        /\ yielded' = Log(yielded, [request |-> request, response |-> r])
                        /\ resp' = r
                        /\ path' = p
                        /\ IF json /\ ~r.parses
                           THEN genPc' = "none" /\ runPc' = "aborted" /\ stoppedAt' = "json"
                           ELSE genPc' = "yielded" /\ runPc' = "got" /\ stoppedAt' = stoppedAt
                        /\ UNCHANGED <<fault, crashes>>
    /\ UNCHANGED <<endpoint, runs, kwargs, auth, consumed, saveFrame, histVars>>

\* The run's loop asks get_followers for the next page, which asks
\* request_paginated for its next pair and yields response.json().
GetNextPage == Resume(Responses(endpoint), TRUE)

\* The loop body: save_accounts(db, response.json(), followed_id=account_id)
\* for followers, follower_id=account_id for followings.
RunSave ==
    /\ runPc = "got"
    /\ SaveAccountsEnter(resp.body, RunFollowedId, RunFollowerId)
    /\ runPc' = "loop"
    /\ UNCHANGED <<server, endpoint, genPc, path, resp, sent, yielded, runs,
                   kwargs, auth, fault, consumed>>

\* The run is aborted (the process is stopped) at any point of it.
Abort ==
    /\ runPc \in {"loop", "got"}
    /\ crashes < MaxCrashes
    /\ crashes' = crashes + 1
    /\ stoppedAt' = pc
    /\ FrameCleared
    /\ genPc' = "none"
    /\ path' = NoPath
    /\ resp' = NoResponse
    /\ sent' = <<>>
    /\ yielded' = <<>>
    /\ fault' = <<>>
    /\ consumed' = 0
    /\ runPc' = "aborted"
    /\ UNCHANGED <<db, now, firstObserved, lastSaved, server, endpoint, runs,
                   kwargs, auth, histVars>>

SaveSteps ==
    \/ StepCreateAccounts
    \/ StepEnableFts
    \/ StepCreateFollowing
    \/ StepIndexFollowed
    \/ StepIndexFollower
    \/ StepTransform
    \/ StepAlter
    \/ StepInsertAccounts
    \/ StepInsertFollowing
    \/ Return

NextRun ==
    \/ RunStart
    \/ GetNextPage
    \/ RunSave
    \/ SaveSteps
    \/ Abort

SpecRun == InitRun /\ [][NextRun]_vars

\* The run is one thread of straight-line code: while it is not stopped,
\* its loop asks for the next page, saves it and every call runs on.
RunContinues ==
    /\ WF_vars(GetNextPage)
    /\ WF_vars(RunSave)
    /\ WF_vars(SaveSteps)

\* The runs that nothing stops.
NextRunOn ==
    \/ RunStart
    \/ GetNextPage
    \/ RunSave
    \/ SaveSteps

SpecRunFair == InitRun /\ [][NextRunOn]_vars /\ RunContinues

\* ------------------------------------------------------------------ the client alone
\* A caller of the client calls request_paginated("GET", path, **kwargs)
\* and holds its generator.
ClientStart ==
    /\ runPc = "none"
    /\ pc = "idle"
    /\ runs' = runs + 1
    /\ genPc' = "start"
    /\ path' = Some(EndpointPath(endpoint, OwnerId))
    /\ \E k \in ExtraParams : kwargs' = k
    /\ resp' = NoResponse
    /\ sent' = <<>>
    /\ yielded' = <<>>
    /\ fault' = <<>>
    /\ consumed' = 0
    /\ auth' = NoAuth
    /\ runPc' = "loop"
    /\ UNCHANGED <<server, endpoint, saveVars, histVars>>

\* The caller asks the generator for its next pair, as long as it has sent
\* fewer than MaxRequests requests or ends without another one.
ClientNext ==
    /\ Len(sent) < MaxRequests \/ (genPc = "yielded" /\ NextPath(resp) = NoPath)
    /\ Resume(AnyResponses(endpoint), FALSE)

\* The caller is done with the pair it was given.
ClientConsume ==
    /\ runPc = "got"
    /\ runPc' = "loop"
    /\ consumed' = Min(consumed + 1, MaxLog)
    /\ UNCHANGED <<server, endpoint, genPc, path, resp, sent, yielded, runs,
                   kwargs, auth, fault, saveVars, histVars>>

\* The bodies verify-credentials can answer with: the account, an error.
CredentialBodies == { [id |-> OwnerId, username |-> "me"], [error |-> "e"] }

\* The answers to verify-credentials: any status, a body that is not JSON
\* or one of the JSON bodies.
CredentialAnswers ==
    {[status |-> st, parses |-> FALSE, body |-> [error |-> "e"]] : st \in Statuses}
    \cup
    {[status |-> st, parses |-> TRUE, body |-> b] : st \in Statuses, b \in CredentialBodies}

\* accounts_verify_credentials: the request it sends.
VerifyCredentialsRequest ==
    PreparedRequest("GET", <<"accounts/verify_credentials">>, <<>>)

\* if response.status_code == 200
StatusIs200(st) == st = 200

\* Mutant of RaiseForStatus: only client errors raise.
RaiseForStatus4xx(st) == 400 <= st /\ st < 500

\* response.raise_for_status(): raises HTTPError for 4xx and 5xx.
RaiseForStatus(st) == 400 <= st /\ st < 600

\* verify_auth(auth_file_path), once the client is made.
VerifyAuth ==
    /\ runPc = "none"
    /\ pc = "idle"
    /\ \/ auth' = [fn |-> "verify_auth", request |-> <<VerifyCredentialsRequest>>,
                   status |-> 0, returned |-> None, raised |-> "ConnectionError"]
       \/ \E a \in CredentialAnswers :
             auth' = [fn |-> "verify_auth", request |-> <<VerifyCredentialsRequest>>,
                      status |-> a.status,
                      returned |-> IF StatusIs200(a.status) THEN "True" ELSE "False",
                      raised |-> None]
    /\ UNCHANGED <<server, endpoint, genPc, path, resp, sent, yielded, runPc, runs,
                   kwargs, fault, consumed, saveVars, histVars>>

\* get_account_id(client)
GetAccountId ==
    /\ runPc = "none"
    /\ pc = "idle"
    /\ \/ auth' = [fn |-> "get_account_id", request |-> <<VerifyCredentialsRequest>>,
                   status |-> 0, returned |-> None, raised |-> "ConnectionError"]
       \/ \E a \in CredentialAnswers :
             auth' = [fn |-> "get_account_id", request |-> <<VerifyCredentialsRequest>>,
                      status |-> a.status,
                      returned |-> IF /\ ~RaiseForStatus(a.status)
                                      /\ a.parses
                                      /\ "id" \in DOMAIN a.body
                                   THEN a.body.id ELSE None,
                      raised |-> IF RaiseForStatus(a.status) THEN "HTTPError"
                                 ELSE IF ~a.parses THEN "JSONDecodeError"
                                 ELSE IF "id" \notin DOMAIN a.body THEN "KeyError"
                                 ELSE None]
    /\ UNCHANGED <<server, endpoint, genPc, path, resp, sent, yielded, runPc, runs,
                   kwargs, fault, consumed, saveVars, histVars>>

NextClient ==
    \/ VerifyAuth
    \/ GetAccountId
    \/ ClientStart
    \/ ClientNext
    \/ ClientConsume

SpecClient == InitRun /\ [][NextClient]_vars

\* The chain of pages from path p on, ingested by one run that nothing
\* interrupts: every page of the chain is saved in order.
RECURSIVE Ingest(_, _, _)
Ingest(d, p, fuel) ==
    IF p = NoPath \/ fuel = 0 THEN d
    ELSE IF FullUrl(p[1]) \notin DOMAIN server THEN d
    ELSE LET r == server[FullUrl(p[1])]
         IN  Ingest(SaveAccounts(d, r.body, RunFollowedId, RunFollowerId, 0),
                    NextPath(r), fuel - 1)

\* The store a single uninterrupted run on an empty store ends with.
UninterruptedRun ==
    Ingest(EmptyDb, Some(EndpointPath(endpoint, OwnerId)),
           Cardinality(PageUrls(endpoint)))

\* ------------------------------------------------------------------ claims
\* The allow-list and the columns as the specification states them.
SpecAllowList == {"id", "username", "url", "display_name", "note"}

\* C2: following holds at most one row per (followed_id, follower_id) pair,
\* and every row's first_seen is the timestamp of the first save that
\* inserted the pair: no later save of the pair changes it.
C2_EdgeUniqueFirstSeen ==
    /\ \A r, q \in db.following : EdgeKey(r) = EdgeKey(q) => r = q
    /\ \A r \in db.following :
          \E p \in DOMAIN firstObserved :
              StoredKey(p) = EdgeKey(r) /\ r.first_seen = firstObserved[p]
    /\ \A p \in DOMAIN firstObserved :
          \E r \in db.following :
              StoredKey(p) = EdgeKey(r) /\ r.first_seen = firstObserved[p]

\* A save with a later timestamp has returned, and an edge of its page still
\* carries the earlier first_seen.
C2_Witness ==
    /\ pc = "returned"
    /\ caller = "save_accounts"
    /\ first_seen = 2
    /\ \E r \in db.following : EdgeKey(r) \in CallEdgeKeys /\ r.first_seen = 1

\* C3: accounts holds exactly one row per account id ever saved, and the
\* row's columns are the field values of the record of the most recent save
\* of that id, NULL where that record carries no value.
C3_LastWriteWins ==
    /\ \A r, q \in db.accounts : r.id = q.id => r = q
    /\ {r.id : r \in db.accounts} = DOMAIN lastSaved
    /\ \A r \in db.accounts :
          \A c \in SpecAllowList :
              r[c] = IF c \in DOMAIN lastSaved[r.id] THEN lastSaved[r.id][c] ELSE NULL

BothSet == followed_id # None /\ follower_id # None

\* C4: save_accounts with both followed_id and follower_id set ends with the
\* assertion error before anything else happens: the store is as it was at
\* the call and the account records are as they were passed.
C4_BothSetFailsUnchanged ==
    (caller = "save_accounts" /\ BothSet) =>
        /\ pc = "returned"
        /\ raised = "AssertionError"
        /\ db = db0
        /\ accounts = accounts0

\* The call with both ids set, on a store that holds rows, with a page of
\* two records, has failed.
C4_Witness ==
    /\ pc = "returned"
    /\ caller = "save_accounts"
    /\ BothSet
    /\ raised = "AssertionError"
    /\ Len(accounts0) = 2
    /\ db0.accounts # {}

\* The transform of the current save_accounts call has run.
Transformed ==
    /\ caller = "save_accounts"
    /\ raised = None
    /\ pc \in {"alter", "insert_accounts", "insert_following", "returned"}

\* C5: after the transform every record has exactly its original keys that
\* are among id, username, url, display_name, note, with their values.
C5_TransformKeepsAllowList ==
    Transformed =>
        /\ Len(accounts) = Len(accounts0)
        /\ \A i \in 1..Len(accounts) :
              /\ DOMAIN accounts[i] = DOMAIN accounts0[i] \cap SpecAllowList
              /\ \A k \in DOMAIN accounts[i] : accounts[i][k] = accounts0[i][k]

\* An account row of the page that the current call has committed: a row of
\* an id of the page that the store did not hold at the call.
CommittedPageRows ==
    {r \in db.accounts :
        /\ r.id \in {accounts0[i].id : i \in 1..Len(accounts0)}
        /\ ~\E o \in db0.accounts : \A c \in db0.cols : o[c] = r[c]}

\* C6: whenever the process can be stopped inside a save_accounts call that
\* writes edges, the store holds either no account row of the page or every
\* edge row of the page.
C6_PageAtomic ==
    (caller = "save_accounts" /\ WantsEdges(followed_id, follower_id)) =>
        (CommittedPageRows # {} =>
            \A k \in CallEdgeKeys : \E r \in db.following : EdgeKey(r) = k)

FullTables == {"accounts", "accounts_fts", "following"}
FullIndexes == {<<"followed_id", "follower_id">>, <<"followed_id">>, <<"follower_id">>}

\* build_database, called on its own, has returned.
BuildReturned == caller = "direct" /\ pc = "returned"

\* C10: no statement of build_database is refused; when it returns the store
\* has accounts, its full-text index, following and the indexes on
\* followed_id and follower_id (on every store whose accounts table came
\* with its full-text index); nothing that existed is gone or changed, and
\* on a store that has them all the call changes nothing.
C10_BuildIdempotentAdditive ==
    /\ raised # "OperationalError"
    /\ BuildReturned =>
          /\ ("accounts" \in db0.tables => "accounts_fts" \in db0.tables)
                => db.tables = FullTables /\ db.indexes = FullIndexes
          /\ db0.tables \subseteq db.tables
          /\ db0.indexes \subseteq db.indexes
          /\ db.accounts = db0.accounts
          /\ db.following = db0.following
          /\ "accounts" \in db0.tables => db.cols = db0.cols
          /\ (db0.tables = FullTables /\ db0.indexes = FullIndexes) => db = db0

\* build_database has returned from a call on a store that was built and
\* holds account rows and edge rows.
C10_Witness ==
    /\ BuildReturned
    /\ db0.tables = FullTables
    /\ db0.indexes = FullIndexes
    /\ db0.accounts # {}
    /\ db0.following # {}

\* A response carries a next link: a Link header with a next relation.
HasNextLink(r) == r.hasLink /\ r.links.next # <<>>

\* The logs hold everything the generator sent and yielded.
LogComplete == Len(sent) < MaxLog

\* C1: the generator yields one pair per request, in the order of the
\* requests, each with the server's response to that request; it goes on
\* only after a response with a next link, and it ends only after one
\* without: when page N is the first without a next link, it is exhausted
\* after exactly N pairs and N requests.
C1_PaginationYieldsN ==
    (genPc \in {"start", "yielded", "done"} /\ LogComplete) =>
        /\ Len(yielded) = Len(sent)
        /\ \A i \in 1..Len(yielded) :
              /\ yielded[i].request = sent[i]
              /\ yielded[i].response = server[sent[i].url]
        /\ \A i \in 1..(Len(yielded) - 1) : HasNextLink(yielded[i].response)
        /\ genPc = "yielded" => Len(yielded) >= 1 /\ resp = yielded[Len(yielded)].response
        /\ genPc = "done" =>
              /\ Len(yielded) >= 1
              /\ ~HasNextLink(yielded[Len(yielded)].response)

\* The generator is exhausted after three pages, the third with a Link
\* header that has no next relation.
C1_Witness ==
    /\ genPc = "done"
    /\ Len(yielded) = 3
    /\ Len(sent) = 3
    /\ yielded[3].response.hasLink
    /\ ~HasNextLink(yielded[3].response)

Pairs(rows) == {EdgeKey(r) : r \in rows}

\* C7: no run fails, and a run that reaches its end, after whatever runs
\* were stopped or completed before it on the same server data, leaves the
\* accounts table and the set of edge pairs of a single uninterrupted run.
C7_RerunConverges ==
    /\ runPc # "failed"
    /\ runPc = "done" =>
          /\ db.accounts = UninterruptedRun.accounts
          /\ Pairs(db.following) = Pairs(UninterruptedRun.following)

\* The first run was stopped between the insert of a page's accounts and
\* the insert of its edges, and the second run has reached its end with
\* two accounts in the store.
C7_Witness ==
    /\ runPc = "done"
    /\ runs = 2
    /\ crashes = 1
    /\ stoppedAt = "insert_following"
    /\ Cardinality(db.accounts) = 2

\* The account ids on the pages the run was given.
YieldedIds ==
    UNION {{yielded[i].response.body[k].id : k \in 1..Len(yielded[i].response.body)} :
              i \in 1..Len(yielded)}

\* The edge the run is to store for an account id.
RunEdge(i) ==
    IF endpoint = "followers" THEN <<IntOfText[OwnerId], IntOfText[i]>>
    ELSE <<IntOfText[i], IntOfText[OwnerId]>>

\* C8: when the run has saved every page, accounts has a row for every
\* account id of the pages, and following has exactly one row per such id,
\* (owner, id) for followers and (id, owner) for followings, and no other.
C8_EndToEnd ==
    runPc = "done" =>
        /\ LogComplete
        /\ YieldedIds \subseteq {r.id : r \in db.accounts}
        /\ Pairs(db.following) = {RunEdge(i) : i \in YieldedIds}
        /\ \A r, q \in db.following : EdgeKey(r) = EdgeKey(q) => r = q

\* A followings run of two pages has ended with two edges in the store.
C8_Witness ==
    /\ runPc = "done"
    /\ endpoint = "following"
    /\ Len(yielded) = 2
    /\ Cardinality(db.following) = 2
    /\ Cardinality(db.accounts) = 2

\* C9 as claimed: whatever the server answers, a generator that is started
\* ends.
C9_AlwaysFinite == (genPc = "start") ~> (genPc \in {"done", "none"})

\* C9, amended: the generator ends once it has yielded a response without a
\* next link.
C9_FiniteOnceNoNextLink ==
    (genPc = "yielded" /\ ~HasNextLink(resp)) ~> (genPc \in {"done", "none"})

\* The generator has ended after a second page without a next link.
C9_Witness ==
    /\ genPc = "done"
    /\ Len(sent) = 2
    /\ ~yielded[2].response.hasLink

\* The base every request URL is to start with: https://{domain}/api/v1/
BaseUrl == ApiUrl \o <<"/">>

\* A request goes to a URL under the base and carries the bearer token.
UnderBaseWithToken(request) ==
    /\ IsPrefix(BaseUrl, request.url)
    /\ request.authorization = AuthHeader

\* C11: every request the client sent, the first of a pagination, every
\* follow-up request derived from a next link and the verify-credentials
\* request, has a URL that starts with https://{domain}/api/v1/ and carries
\* authorization: Bearer {token}; the token goes to no URL outside the base.
C11_RequestsUnderBaseWithToken ==
    /\ \A i \in 1..Len(sent) : UnderBaseWithToken(sent[i])
    /\ auth.request # <<>> => UnderBaseWithToken(auth.request[1])

\* A status of the 2xx class.
Is2xx(st) == 200 <= st /\ st < 300

\* verify_auth / get_account_id got a response (no transport fault).
Answered(fn) == auth.fn = fn /\ auth.status # 0

\* C12 as claimed: for every non-2xx status of verify-credentials
\* verify_auth returns False without raising, and True for a successful
\* status, while get_account_id raises and returns no account id.
C12_Non2xxFalseOrRaises ==
    /\ Answered("verify_auth") =>
          /\ auth.raised = None
          /\ auth.returned = IF Is2xx(auth.status) THEN "True" ELSE "False"
    /\ (Answered("get_account_id") /\ ~Is2xx(auth.status)) =>
          /\ auth.raised # None
          /\ auth.returned = None

\* C12, amended: verify_auth returns True for status 200 and False for every
\* other status, without raising; get_account_id raises HTTPError and
\* returns no account id for every 4xx and 5xx status, and for any other
\* status it raises or returns an id (the id of the response's body).
C12_Only200TrueErrorsRaise ==
    /\ Answered("verify_auth") =>
          /\ auth.raised = None
          /\ auth.returned = IF auth.status = 200 THEN "True" ELSE "False"
    /\ Answered("get_account_id") =>
          /\ (400 <= auth.status /\ auth.status < 600) =>
                auth.raised = "HTTPError" /\ auth.returned = None
          /\ (auth.raised = None) # (auth.returned = None)
          /\ auth.returned \in {None, OwnerId}

\* get_account_id has raised HTTPError on a 503 answer.
C12_Witness ==
    /\ Answered("get_account_id")
    /\ auth.status = 503
    /\ auth.raised = "HTTPError"

AccountIds(d) == {r.id : r \in d.accounts}

\* C13: once save_accounts has returned for a page of the run, the store
\* holds a row for every account id of that page and every edge row of that
\* page, as it was when the save returned, in every later state: while
\* later pages are fetched and saved, and after the run was stopped, or
\* ended on a request that failed or on a body that is not JSON.
C13_SavedPagesStay ==
    /\ savedIds \subseteq AccountIds(db)
    /\ savedEdges \subseteq db.following

\* The run ended on the failed request for its third page, after the saves
\* of two pages with accounts returned.
C13_Witness ==
    /\ runPc = "aborted"
    /\ stoppedAt = "request"
    /\ Len(sent) = 3
    /\ consumed = 2
    /\ Cardinality(savedIds) = 2
    /\ Cardinality(savedEdges) = 2

\* The consumer holds a page it is not done with: it was just given one, or
\* it is saving one.
PageInHand == runPc = "got" \/ (runPc = "loop" /\ pc # "idle")

\* C14: the requests never run ahead of the consumer: every request but
\* the last was sent for a page the consumer is done with, and the last one
\* is for the page the consumer holds, if it holds one. So the request for
\* page k+1 is sent only after the consumer is done with page k and asks
\* for the next, and no second request is out while one is.
C14_LazySequential ==
    (runPc \in {"loop", "got", "done"} /\ LogComplete) =>
        Len(sent) = consumed + (IF PageInHand THEN 1 ELSE 0)

\* The run was given its third page after it saved two.
C14_Witness ==
    /\ runPc = "got"
    /\ Len(sent) = 3
    /\ consumed = 2

\* The step resumes the generator that is suspended at its yield.
ResumedAtYield == genPc = "yielded" /\ runPc = "loop" /\ runPc' # "loop"

\* C15: a generator that has ended normally ended after a response without
\* a next link; and a generator resumed after a response with a next link,
\* whatever the response's status and body are, sends the next request and
\* does not end.
C15_OnlyMissingNextLinkEnds ==
    /\ [](genPc = "done" => ~HasNextLink(resp))
    /\ [][(ResumedAtYield /\ HasNextLink(resp)) =>
              (Len(sent') = Len(sent) + 1 /\ genPc' # "done")]_vars

\* The second request was sent after a first response with status 503, an
\* empty array as body and a next link.
C15_Witness ==
    /\ genPc = "yielded"
    /\ Len(sent) = 2
    /\ yielded[1].response.status = 503
    /\ yielded[1].response.body = <<>>
    /\ HasNextLink(yielded[1].response)

\* The target of the next link of the i-th response the generator yielded.
NextTarget(i) == yielded[i].response.links.next[1]

\* C16: for every response whose next link target starts with the client's
\* base URL, the following request is sent to exactly that target URL,
\* whatever the path, the extra params and the target are.
C16_NextLinkRoundTrip ==
    \A i \in 1..Len(yielded) :
        (/\ i < Len(sent)
         /\ HasNextLink(yielded[i].response)
         /\ IsPrefix(BaseUrl, NextTarget(i)))
        => sent[i + 1].url = NextTarget(i)

\* The ids of the accounts rows, as an id column of following stores them.
StoredAccountIds == {IntAffinity(r.id) : r \in db.accounts}

\* C17: after any sequence of save_accounts calls, both followed_id and
\* follower_id of every row of following are the id of a row of accounts,
\* the fixed id the caller supplied included.
C17_EdgesReferToAccounts ==
    pc \in {"idle", "returned"} =>
        \A r \in db.following :
            /\ r.followed_id \in StoredAccountIds
            /\ r.follower_id \in StoredAccountIds

\* C18: no step of a build_database or save_accounts call, whether the call
\* returns, raises or is stopped, takes an account id out of accounts or a
\* (followed_id, follower_id) pair out of following.
C18_NoDeletion ==
    [][/\ AccountIds(db) \subseteq AccountIds(db')
       /\ Pairs(db.following) \subseteq Pairs(db'.following)]_vars

\* A save of a page has returned, and an account and an edge that the store
\* held before and that are not on the page are still there.
C18_Witness ==
    /\ pc = "returned"
    /\ caller = "save_accounts"
    /\ raised = None
    /\ \E i \in AccountIds(db0) :
          /\ i \notin {accounts0[k].id : k \in 1..Len(accounts0)}
          /\ i \in AccountIds(db)
    /\ \E k \in Pairs(db0.following) :
          /\ k \notin CallEdgeKeys
          /\ k \in Pairs(db.following)

\* C19: when the sending of a request has failed, the generator is finished
\* and its caller has the error; the request that failed is the last one
\* sent, sent once, with no pair yielded for it; and nothing resumes the
\* generator: no request is sent and no pair is yielded after it.
C19_TransportFaultPropagates ==
    fault # <<>> =>
        /\ genPc = "none"
        /\ runPc = "aborted"
        /\ Len(yielded) < MaxLog =>
              /\ Len(sent) = Len(yielded) + 1
              /\ sent[Len(sent)] = fault[1]
        /\ \A i \in 1..Len(yielded) : yielded[i].request = sent[i]
        /\ ~ENABLED ClientNext
        /\ ~ENABLED GetNextPage

\* The request for the second page has failed after the first page was
\* yielded with a next link.
C19_Witness ==
    /\ fault # <<>>
    /\ Len(sent) = 2
    /\ Len(yielded) = 1
    /\ HasNextLink(yielded[1].response)

====
